---------------------------- MODULE Spec2Model ----------------------------
(* Model of celery.worker.pidbox.Pidbox: the lifecycle of the worker's     *)
(* remote-control mailbox (start / stop / reset / shutdown) and the         *)
(* dispatch of inbound control messages (on_message).                      *)
(*                                                                         *)
(* The broker transport is a counting transport: channels are numbered in  *)
(* the order they are opened, closeCount[ch] counts the close calls made   *)
(* on channel ch, and consumers are numbered in the order listen creates   *)
(* them.  0 stands for Python's None.                                      *)
EXTENDS Integers, Sequences, FiniteSets, TLC

(* Number of calls made on the Pidbox in one behaviour. *)
MaxCalls == 4

None == 0

NoError == "none"
TransportError == "TransportError"
KeyError == "KeyError"
OtherError == "Exception"

(* control.Panel.data: the registry of command handlers, here by what the  *)
(* handler does when it is invoked.                                        *)
Panel ==
    [ping |-> "returns", boom |-> "raises", kerr |-> "raisesKeyError"]

(* Command names carried by inbound messages; "nope" is not registered. *)
Commands == {"ping", "boom", "kerr", "nope"}

(* c.hostname: the worker's identity. *)
Hostname == "worker1"

VARIABLES
    node,        \* self.node: the Node instance (numbered in creation order)
                 \* and the hostname it is bound to
    consumer,    \* self.consumer: None or the consumer returned by listen
    channel,     \* self.node.channel: None or the channel last bound
    clock,       \* c.app.clock: the logical clock's value
    opened,      \* transport: number of channels opened so far
    closeCount,  \* transport: closeCount[ch] = close calls made on ch
    listens,     \* transport: number of consumers created so far
    log,         \* the effects of the last call, in order
    pre,         \* the Pidbox and transport state when the last call began
    calls        \* the calls made so far: [op, cmd, exc, listening]
                 \* (listening: the inbox was Listening when called)

vars == <<node, consumer, channel, clock, opened, closeCount, listens, log, pre, calls>>

Ev(e, id, ok) == [ev |-> e, id |-> id, ok |-> ok]

(* The state a call starts from: empty effect log, no exception raised. *)
Cur ==
    [node |-> node,
     consumer |-> consumer, channel |-> channel, clock |-> clock,
     opened |-> opened, closeCount |-> closeCount, listens |-> listens,
     log |-> <<>>, exc |-> NoError]

Snapshot ==
    [node |-> node,
     consumer |-> consumer, channel |-> channel, clock |-> clock,
     opened |-> opened, closeCount |-> closeCount, listens |-> listens]

(* kombu.common.ignore_errors(c, fun): connection and channel errors      *)
(* raised by fun are swallowed, any other exception passes.               *)
ignore_errors(err) == IF err = TransportError THEN NoError ELSE err

(* self._forward_clock() *)
forward_clock(s) ==
    [s EXCEPT !.clock = @ + 1, !.log = Append(@, Ev("clock", 0, TRUE))]

(* self.node.handle_message(body, message): looks the command up in the   *)
(* registry and invokes the handler; yields the exception that comes out. *)
handle_message(cmd) ==
    IF cmd \notin DOMAIN Panel THEN KeyError
    ELSE CASE Panel[cmd] = "returns" -> NoError
           [] Panel[cmd] = "raisesKeyError" -> KeyError
           [] OTHER -> OtherError

(* Variant of start made idempotent by first closing the channel it      *)
(* holds.                                                                  *)
start_close_first(s, openOk, listenOk) ==
    LET s0 == IF s.channel # None
              THEN [s EXCEPT !.closeCount[s.channel] = @ + 1,
                             !.log = Append(@, Ev("close", s.channel, TRUE))]
              ELSE s
    IN IF ~openOk
       THEN [s0 EXCEPT !.exc = TransportError,
                       !.log = Append(@, Ev("open", 0, FALSE))]
       ELSE LET ch == s0.opened + 1
                s1 == [s0 EXCEPT !.opened = ch,
                                 !.closeCount = Append(@, 0),
                                 !.channel = ch,
                                 !.log = Append(@, Ev("open", ch, TRUE))]
            IN IF ~listenOk
               THEN [s1 EXCEPT !.exc = TransportError,
                               !.log = Append(@, Ev("listen", 0, FALSE))]
               ELSE LET co == s1.listens + 1
                    IN [s1 EXCEPT !.listens = co,
                                  !.consumer = co,
                                  !.log = Append(Append(@, Ev("listen", co, TRUE)),
                                                 Ev("on_decode_error", co, TRUE))]

(* Pidbox.start *)
start(s, openOk, listenOk) ==
    IF ~openOk
    THEN [s EXCEPT !.exc = TransportError,
                   !.log = Append(@, Ev("open", 0, FALSE))]
    ELSE LET ch == s.opened + 1
             s1 == [s EXCEPT !.opened = ch,
                             !.closeCount = Append(@, 0),
                             !.channel = ch,
                             !.log = Append(@, Ev("open", ch, TRUE))]
         IN IF ~listenOk
            THEN [s1 EXCEPT !.exc = TransportError,
                            !.log = Append(@, Ev("listen", 0, FALSE))]
            ELSE LET co == s1.listens + 1
                 IN [s1 EXCEPT !.listens = co,
                               !.consumer = co,
                               !.log = Append(Append(@, Ev("listen", co, TRUE)),
                                              Ev("on_decode_error", co, TRUE))]

(* Pidbox.on_stop *)
on_stop(s) == [s EXCEPT !.log = Append(@, Ev("on_stop", 0, TRUE))]

(* Variant of _close_channel that never calls close. *)
_close_channel_skip(s, closeOk) == s

(* Pidbox._close_channel *)
_close_channel(s, closeOk) ==
    IF s.channel # None
    THEN [s EXCEPT !.closeCount[s.channel] = @ + 1,
                   !.log = Append(@, Ev("close", s.channel, closeOk)),
                   !.exc = ignore_errors(IF closeOk THEN NoError ELSE TransportError)]
    ELSE s

(* Pidbox.stop *)
stop(s, closeOk) ==
    LET s1 == _close_channel(on_stop(s), closeOk)
    IN IF s1.exc # NoError THEN s1 ELSE [s1 EXCEPT !.consumer = None]

(* Variant of reset that builds a new Node for the same hostname between *)
(* stop and start.                                                        *)
reset_new_node(s, closeOk, openOk, listenOk) ==
    LET s1 == stop(s, closeOk)
    IN IF s1.exc # NoError THEN s1
       ELSE start([s1 EXCEPT !.node.id = @ + 1, !.channel = None],
                  openOk, listenOk)

(* Pidbox.reset *)
reset(s, closeOk, openOk, listenOk) ==
    LET s1 == stop(s, closeOk)
    IN IF s1.exc # NoError THEN s1 ELSE start(s1, openOk, listenOk)

(* Variant of on_message with a single except clause: every exception,   *)
(* the KeyError of an unknown command included, triggers reset.           *)
on_message_reset_any(s, cmd, closeOk, openOk, listenOk) ==
    LET s1 == forward_clock(s)
        raised == handle_message(cmd)
        s2 == [s1 EXCEPT !.log = Append(@, Ev("handle_message", 0, raised = NoError))]
    IN IF raised = NoError THEN s2
       ELSE reset([s2 EXCEPT !.log = Append(@, Ev("error: Control command error", 0, TRUE))],
                  closeOk, openOk, listenOk)

(* Variant of on_message that forwards the clock at the end of the try    *)
(* block, after handle_message has returned, so not when it raises.       *)
on_message_clock_late(s, cmd, closeOk, openOk, listenOk) ==
    LET raised == handle_message(cmd)
        s2 == [s EXCEPT !.log = Append(@, Ev("handle_message", 0, raised = NoError))]
    IN CASE raised = NoError -> forward_clock(s2)
         [] raised = KeyError ->
                [s2 EXCEPT !.log = Append(@, Ev("error: No such control command", 0, TRUE))]
         [] OTHER ->
                reset([s2 EXCEPT !.log = Append(@, Ev("error: Control command error", 0, TRUE))],
                      closeOk, openOk, listenOk)

(* Variant of on_message that resets in a finally clause, after every     *)
(* message.                                                                *)
on_message_reset_finally(s, cmd, closeOk, openOk, listenOk) ==
    LET s1 == forward_clock(s)
        raised == handle_message(cmd)
        s2 == [s1 EXCEPT !.log = Append(@, Ev("handle_message", 0, raised = NoError))]
    IN reset(s2, closeOk, openOk, listenOk)

(* Pidbox.on_message *)
on_message(s, cmd, closeOk, openOk, listenOk) ==
    LET s1 == forward_clock(s)
        raised == handle_message(cmd)
        s2 == [s1 EXCEPT !.log = Append(@, Ev("handle_message", 0, raised = NoError))]
    IN CASE raised = NoError -> s2
         [] raised = KeyError ->
                [s2 EXCEPT !.log = Append(@, Ev("error: No such control command", 0, TRUE))]
         [] OTHER ->
                reset([s2 EXCEPT !.log = Append(@, Ev("error: Control command error", 0, TRUE))],
                      closeOk, openOk, listenOk)

(* Variant of shutdown that calls consumer.cancel() directly, outside     *)
(* ignore_errors.                                                          *)
shutdown_bare_cancel(s, cancelOk, closeOk) ==
    LET s1 == on_stop(s)
        s2 == IF s1.consumer # None
              THEN [s1 EXCEPT !.log = Append(@, Ev("cancel", s1.consumer, cancelOk)),
                              !.exc = IF cancelOk THEN NoError ELSE TransportError]
              ELSE s1
    IN IF s2.exc # NoError THEN s2 ELSE stop(s2, closeOk)

(* Variant of shutdown that stops first and cancels the consumer it held *)
(* afterwards.                                                             *)
shutdown_stop_first(s, cancelOk, closeOk) ==
    LET s1 == stop(on_stop(s), closeOk)
    IN IF s.consumer # None
       THEN [s1 EXCEPT !.log = Append(@, Ev("cancel", s.consumer, cancelOk)),
                       !.exc = ignore_errors(IF cancelOk THEN NoError
                                             ELSE TransportError)]
       ELSE s1

(* Variant of shutdown that leaves the hook to the nested stop. *)
shutdown_single_hook(s, cancelOk, closeOk) ==
    LET s2 == IF s.consumer # None
              THEN [s EXCEPT !.log = Append(@, Ev("cancel", s.consumer, cancelOk)),
                             !.exc = ignore_errors(IF cancelOk THEN NoError
                                                   ELSE TransportError)]
              ELSE s
    IN IF s2.exc # NoError THEN s2 ELSE stop(s2, closeOk)

(* Pidbox.shutdown *)
shutdown(s, cancelOk, closeOk) ==
    LET s1 == on_stop(s)
        s2 == IF s1.consumer # None
              THEN [s1 EXCEPT !.log = Append(@, Ev("cancel", s1.consumer, cancelOk)),
                              !.exc = ignore_errors(IF cancelOk THEN NoError
                                                    ELSE TransportError)]
              ELSE s1
    IN IF s2.exc # NoError THEN s2 ELSE stop(s2, closeOk)

(* Pidbox.__init__: no I/O, consumer = None (class attribute, line 18),   *)
(* a fresh Node has no channel.                                            *)
Init ==
    /\ node = [id |-> 1, hostname |-> Hostname]
    /\ consumer = None
    /\ channel = None
    /\ clock = 0
    /\ opened = 0
    /\ closeCount = <<>>
    /\ listens = 0
    /\ log = <<>>
    /\ pre = [node |-> [id |-> 1, hostname |-> Hostname],
              consumer |-> None, channel |-> None, clock |-> 0,
              opened |-> 0, closeCount |-> <<>>, listens |-> 0]
    /\ calls = <<>>

(* One call on the Pidbox, from entry until it returns or raises. *)
Call(op, cmd, t) ==
    /\ Len(calls) < MaxCalls
    /\ pre' = Snapshot
    /\ node' = t.node
    /\ consumer' = t.consumer
    /\ channel' = t.channel
    /\ clock' = t.clock
    /\ opened' = t.opened
    /\ closeCount' = t.closeCount
    /\ listens' = t.listens
    /\ log' = t.log
    /\ calls' = Append(calls, [op |-> op, cmd |-> cmd, exc |-> t.exc,
                               listening |-> consumer # None])

Start ==
    \E openOk, listenOk \in BOOLEAN :
        Call("start", "", start(Cur, openOk, listenOk))

Stop ==
    \E closeOk \in BOOLEAN :
        Call("stop", "", stop(Cur, closeOk))

Reset ==
    \E closeOk, openOk, listenOk \in BOOLEAN :
        Call("reset", "", reset(Cur, closeOk, openOk, listenOk))

Shutdown ==
    \E cancelOk, closeOk \in BOOLEAN :
        Call("shutdown", "", shutdown(Cur, cancelOk, closeOk))

OnMessage ==
    \E cmd \in Commands, closeOk, openOk, listenOk \in BOOLEAN :
        Call("on_message", cmd, on_message(Cur, cmd, closeOk, openOk, listenOk))

Next == Start \/ Stop \/ Reset \/ Shutdown \/ OnMessage

Spec == Init /\ [][Next]_vars


-----------------------------------------------------------------------------
(* Vocabulary of the properties. *)

Last == calls[Len(calls)]

LastOp(op) == Len(calls) > 0 /\ Last.op = op

(* Positions of the effects of kind e in the last call's log. *)
At(e) == {i \in 1..Len(log) : log[i].ev = e}

Count(e) == Cardinality(At(e))

RECURSIVE SumSeq(_)
SumSeq(q) == IF q = <<>> THEN 0 ELSE Head(q) + SumSeq(Tail(q))

(* Close calls made on the transport so far, over all channels. *)
TotalCloses == SumSeq(closeCount)

Listening == consumer # None

(* The calls so far are start, stop, start, stop, ... where each start    *)
(* was made while Stopped and returned normally.                           *)
Paired ==
    \A i \in 1..Len(calls) :
        IF i % 2 = 1
        THEN calls[i].op = "start" /\ calls[i].exc = NoError
        ELSE calls[i].op = "stop"

Registered(cmd) == cmd \in DOMAIN Panel

HandlerRaises(cmd) == Registered(cmd) /\ Panel[cmd] # "returns"

LifecycleUnchanged ==
    /\ consumer = pre.consumer
    /\ channel = pre.channel
    /\ opened = pre.opened
    /\ closeCount = pre.closeCount
    /\ listens = pre.listens

-----------------------------------------------------------------------------
C2_UnknownKeepsState ==
    (LastOp("on_message") /\ ~Registered(Last.cmd)) =>
        /\ LifecycleUnchanged
        /\ Count("on_stop") = 0
        /\ Count("close") = 0
        /\ Count("open") = 0
        /\ Count("listen") = 0

C2_Witness ==
    /\ LastOp("on_message")
    /\ Last.cmd = "nope"
    /\ pre.consumer # None
    /\ consumer = pre.consumer
    /\ Count("error: No such control command") = 1

(* C3: dispatching, on a Listening inbox, a message whose handler raises   *)
(* runs exactly one stop and then exactly one start: the old channel is    *)
(* closed once, then one new channel is opened, the new channel differs    *)
(* from the old one, and the inbox is Listening with a new consumer when   *)
(* dispatch returns.                                                       *)
C3_RaiseResetsOnce ==
    (LastOp("on_message") /\ pre.consumer # None /\ HandlerRaises(Last.cmd)) =>
        /\ Count("on_stop") = 1
        /\ Count("close") = 1
        /\ \A i \in At("close") : log[i].id = pre.channel
        /\ Count("open") = 1
        /\ \A i \in At("close") : \A j \in At("open") : i < j
        /\ opened = pre.opened + 1
        /\ channel = opened
        /\ channel # pre.channel
        /\ Last.exc = NoError => (consumer # None /\ consumer # pre.consumer)

(* C4: every call of on_message advances the logical clock exactly once,   *)
(* before the handler is looked up and run, whether the handler succeeds,  *)
(* the command is unknown or the handler raises and reset runs; start,     *)
(* stop, reset and shutdown never advance it.                              *)
C4_ClockOncePerDispatch ==
    Len(calls) > 0 =>
        IF Last.op = "on_message"
        THEN /\ clock = pre.clock + 1
             /\ Count("clock") = 1
             /\ Count("handle_message") = 1
             /\ \A i \in At("clock") : \A j \in At("handle_message") : i < j
        ELSE /\ clock = pre.clock
             /\ Count("clock") = 0

C4_Witness ==
    /\ Len(calls) = 4
    /\ calls[1].op = "start"
    /\ calls[2].cmd = "ping"
    /\ calls[3].cmd = "nope"
    /\ calls[4].cmd = "boom"
    /\ Count("open") = 1
    /\ clock = 3

(* C5: shutdown, in any state, ends with the consumer reference null and   *)
(* lets no exception escape, even if the consumer cancel fails and the     *)
(* channel close fails.                                                    *)
C5_ShutdownStops ==
    LastOp("shutdown") => (consumer = None /\ Last.exc = NoError)

C5_Witness ==
    /\ LastOp("shutdown")
    /\ pre.consumer # None
    /\ \E i \in At("cancel") : ~log[i].ok
    /\ \E i \in At("close") : ~log[i].ok
    /\ consumer = None

(* C6: no error propagates out of on_message: for every message and every  *)
(* handler outcome, including a handler that raises and a reset whose      *)
(* channel open fails, on_message returns normally.                        *)
C6_DispatchNeverRaises ==
    LastOp("on_message") => Last.exc = NoError

(* C7: stop called when the inbox is already Stopped, after a previous     *)
(* stop or shutdown, is a no-op: it makes no channel close call and leaves *)
(* the consumer and channel references unchanged.                          *)
C7_StopIdempotent ==
    (/\ Len(calls) >= 2
     /\ Last.op = "stop"
     /\ calls[Len(calls) - 1].op \in {"stop", "shutdown"}) =>
        /\ Count("close") = 0
        /\ closeCount = pre.closeCount
        /\ consumer = pre.consumer
        /\ channel = pre.channel

(* C8: between operations the channel reference is non-null only if the    *)
(* inbox is Listening (no close is pending between operations), and after  *)
(* stop or shutdown returns both the consumer and the channel reference    *)
(* are null.                                                               *)
C8_RefsFollowState ==
    /\ channel # None => Listening
    /\ (LastOp("stop") \/ LastOp("shutdown")) =>
           (consumer = None /\ channel = None)

(* C9: once stop or shutdown has returned, message callbacks delivered to  *)
(* on_message cannot change the lifecycle: the inbox stays Stopped, no     *)
(* channel is opened and no consumer is created, whatever the handler does.*)
C9_LateDispatchInert ==
    (\E i \in 1..Len(calls) :
        /\ calls[i].op \in {"stop", "shutdown"}
        /\ i < Len(calls)
        /\ \A j \in (i + 1)..Len(calls) : calls[j].op = "on_message") =>
        /\ consumer = None
        /\ opened = pre.opened
        /\ listens = pre.listens

(* C10: on_message takes the unknown-command path (log only, no reset)     *)
(* only when the command is absent from the registry; whenever a           *)
(* registered handler raises, a KeyError from the handler's body included, *)
(* the error is logged as a control command error and reset runs.          *)
C10_ErrorClassification ==
    LastOp("on_message") =>
        /\ Count("error: No such control command") = 1 => ~Registered(Last.cmd)
        /\ HandlerRaises(Last.cmd) =>
               /\ Count("error: Control command error") = 1
               /\ Count("on_stop") = 1

(* Open channels: opened and no close call made on them yet. *)
Live == {ch \in 1..opened : closeCount[ch] = 0}

(* C11: when a directly invoked start fails to open the channel, the       *)
(* TransportError reaches the caller and the inbox is left Stopped         *)
(* (consumer null, channel reference unchanged, no consumer created); when *)
(* the channel opens but listen fails, the inbox is not left holding an    *)
(* open channel without a consumer.                                        *)
C11_FailedStartLeavesStopped ==
    (LastOp("start") /\ pre.consumer = None) =>
        /\ (\E i \in At("open") : ~log[i].ok) =>
               /\ Last.exc = TransportError
               /\ consumer = None
               /\ channel = pre.channel
               /\ listens = pre.listens
        /\ (\E i \in At("listen") : ~log[i].ok) =>
               ~(channel \in Live /\ consumer = None)

(* C12: every transition out of Listening (stop, shutdown, the stop half   *)
(* of reset) closes exactly one channel and cancels exactly one consumer;  *)
(* every transition into Listening (start, the start half of reset) opens  *)
(* exactly one channel and creates exactly one consumer.                   *)
C12_TransitionsBalanced ==
    Len(calls) > 0 =>
        /\ (pre.consumer # None /\ Count("on_stop") >= 1) =>
               /\ Count("close") = 1
               /\ Count("cancel") = 1
        /\ (consumer # None /\ consumer # pre.consumer) =>
               /\ Count("open") = 1
               /\ opened = pre.opened + 1
               /\ Count("listen") = 1
               /\ listens = pre.listens + 1

(* Every start so far was invoked while the inbox was Stopped. *)
StartsWhenStopped ==
    \A i \in 1..Len(calls) : calls[i].op = "start" => ~calls[i].listening

(* C13: as long as start is only invoked when Stopped, at most one channel *)
(* is open (opened and not closed) at any time, whatever stop, reset,      *)
(* shutdown and dispatches do, and exactly one is open exactly when the    *)
(* inbox is Listening.                                                     *)
C13_OneLiveChannel ==
    StartsWhenStopped =>
        /\ Cardinality(Live) <= 1
        /\ Cardinality(Live) = 1 <=> Listening

(* The last call ran reset, directly or from on_message. *)
ResetRan ==
    \/ LastOp("reset")
    \/ LastOp("on_message") /\ Count("on_stop") >= 1

(* C14 as claimed: every reset replaces the Node with a new instance bound *)
(* to the same hostname, and outside construction and reset the Node is    *)
(* never replaced.                                                         *)
C14_ResetReplacesNode ==
    Len(calls) > 0 =>
        IF ResetRan
        THEN node.id # pre.node.id /\ node.hostname = pre.node.hostname
        ELSE node = pre.node

(* C14 as amended: the Node built at construction is never replaced, by    *)
(* reset or by any other operation, and keeps its hostname; a reset that   *)
(* returns normally replaces only the channel and the consumer.            *)
C14_NodeKept ==
    /\ node = [id |-> 1, hostname |-> Hostname]
    /\ node = pre.node
    /\ (ResetRan /\ Last.exc = NoError) =>
           /\ channel # pre.channel
           /\ consumer # None
           /\ consumer # pre.consumer

C14_Witness ==
    /\ LastOp("reset")
    /\ Last.exc = NoError
    /\ pre.consumer # None
    /\ consumer # pre.consumer
    /\ channel # pre.channel
    /\ node = pre.node

(* C15: dispatching a message whose registered handler returns normally    *)
(* invokes the handler exactly once and changes nothing in the lifecycle:  *)
(* no reset, no channel opened or closed, consumer and channel references  *)
(* unchanged; a Listening inbox stays Listening on the same channel.       *)
C15_SuccessKeepsState ==
    (/\ LastOp("on_message")
     /\ Registered(Last.cmd)
     /\ Panel[Last.cmd] = "returns") =>
        /\ Count("handle_message") = 1
        /\ \A i \in At("handle_message") : log[i].ok
        /\ LifecycleUnchanged
        /\ node = pre.node
        /\ Count("on_stop") = 0
        /\ Count("close") = 0
        /\ Count("open") = 0
        /\ Count("listen") = 0
        /\ Count("cancel") = 0
        /\ Last.exc = NoError
        /\ pre.consumer # None => (Listening /\ channel = pre.channel)

C15_Witness ==
    /\ Len(calls) = 4
    /\ calls[1].op = "start"
    /\ \A i \in 2..4 : calls[i].op = "on_message" /\ calls[i].cmd = "ping"
    /\ Listening
    /\ channel = 1
    /\ opened = 1
    /\ closeCount = <<0>>

(* C16: within shutdown the on-stop hook comes first, then the consumer    *)
(* cancel (attempted exactly when a consumer is active), then the channel  *)
(* close; the cancel always precedes the close of the consumer's channel   *)
(* and a failed cancel does not prevent the close.  Within stop the        *)
(* on-stop hook runs before the channel close.                             *)
C16_TeardownOrder ==
    /\ LastOp("shutdown") =>
           /\ log[1].ev = "on_stop"
           /\ Count("cancel") = (IF pre.consumer # None THEN 1 ELSE 0)
           /\ \A i \in At("cancel") :
                  /\ log[i].id = pre.consumer
                  /\ \E h \in At("on_stop") : h < i
                  /\ \E j \in At("close") : i < j /\ log[j].id = pre.channel
           /\ \A j \in At("close") :
                  /\ \E h \in At("on_stop") : h < j
                  /\ \A i \in At("cancel") : i < j
           /\ Count("close") = (IF pre.channel # None THEN 1 ELSE 0)
    /\ LastOp("stop") =>
           /\ log[1].ev = "on_stop"
           /\ \A j \in At("close") : \E h \in At("on_stop") : h < j
           /\ Count("close") = (IF pre.channel # None THEN 1 ELSE 0)

C16_Witness ==
    /\ LastOp("shutdown")
    /\ pre.consumer # None
    /\ \E i \in At("cancel") : \E j \in At("close") :
           i < j /\ ~log[i].ok /\ log[j].id = pre.channel

(* C17: start never closes a channel or cancels a consumer; a start made   *)
(* while Listening that returns normally overwrites the channel and        *)
(* consumer references with new ones and leaves the previous channel open; *)
(* every close call of any operation targets the channel most recently     *)
(* opened, so a channel that start has superseded is never closed.         *)
C17_StartNeverCloses ==
    Len(calls) > 0 =>
        /\ Last.op = "start" =>
               /\ Count("close") = 0
               /\ Count("cancel") = 0
               /\ \A ch \in 1..pre.opened : closeCount[ch] = pre.closeCount[ch]
        /\ (Last.op = "start" /\ Last.listening /\ Last.exc = NoError) =>
               /\ channel = opened
               /\ channel # pre.channel
               /\ consumer # None
               /\ consumer # pre.consumer
        /\ \A i \in At("close") : log[i].id = pre.opened
        /\ \A ch \in 1..(pre.opened - 1) : closeCount[ch] = pre.closeCount[ch]

C17_Witness ==
    /\ Len(calls) = 4
    /\ calls[1].op = "start"
    /\ calls[2].op = "start"
    /\ calls[2].listening
    /\ calls[3].op = "stop"
    /\ calls[4].op = "shutdown"
    /\ opened = 2
    /\ closeCount = <<0, 2>>

(* The last call was an on_message whose handler raised an exception other *)
(* than KeyError, the case in which on_message runs reset.                 *)
DispatchResets ==
    /\ LastOp("on_message")
    /\ Registered(Last.cmd)
    /\ Panel[Last.cmd] = "raises"

(* C18: the on-stop hook is invoked exactly once per stop, exactly once    *)
(* per reset (a reset triggered from on_message included), exactly twice   *)
(* per shutdown, and never by start or by a dispatch that does not reset.  *)
C18_OnStopCalls ==
    Len(calls) > 0 =>
        Count("on_stop") =
            CASE Last.op = "stop" -> 1
              [] Last.op = "reset" -> 1
              [] Last.op = "shutdown" -> 2
              [] Last.op = "start" -> 0
              [] Last.op = "on_message" -> IF DispatchResets THEN 1 ELSE 0

C18_Witness ==
    /\ LastOp("shutdown")
    /\ pre.consumer # None
    /\ Count("on_stop") = 2
    /\ Count("cancel") = 1
    /\ \E k \in 1..(Len(calls) - 1) : calls[k].op = "on_message" /\ calls[k].cmd = "boom"

=============================================================================
